---- MODULE Spec2Model ----
(***************************************************************************)
(* Model of the tool layer of src/ki.py: the seven tools sh, read_file,    *)
(* write_file, read_excel, excel_groupby, to_csv_from_excel and py, called *)
(* one at a time by the agent.  Texts are sequences of characters; the     *)
(* message of an exception and a path are one element each (their length   *)
(* is not modelled).                                                       *)
(***************************************************************************)
EXTENDS Integers, Sequences, FiniteSets, TLC

\* proc: the process of the sh call in progress or, until the next call, of the last
\* one; lastNs: the namespace the last py call left behind; prevWrite: the write_file
\* that was the previous call, if it was one
VARIABLES platform, fs, pc, call, result, proc, mods, lastNs, prevWrite

vars == <<platform, fs, pc, call, result, proc, mods, lastNs, prevWrite>>

(* ---------- bounds ---------- *)
MaxLen == 2          \* longest file content drawn over Chars
ResultLimit == 2     \* a candidate size limit for a result text
MaxSnippet == 2      \* longest py snippet, in statements

(* ---------- texts ---------- *)
CR == "\r"
LF == "\n"
SURR == "U+D800"     \* a lone surrogate: a str character UTF-8 cannot encode
Chars == {"a", CR, LF}

ErrPrefix == <<"e", "r", "r", "o", "r", ":">>
SavedPrefix == <<"s", "a", "v", "e", "d", ":">>
TruncMarker == <<".", ".", ".", "[", "t", "r", "u", "n", "c", "a", "t", "e", "d", "]">>
OkText == <<"o", "k">>

StartsWith(t, p) == Len(t) >= Len(p) /\ SubSeq(t, 1, Len(p)) = p

SeqsUpTo(S, n) == UNION {[1..k -> S] : k \in 0..n}

RECURSIVE Rep(_, _)
Rep(c, n) == IF n <= 0 THEN <<>> ELSE <<c>> \o Rep(c, n - 1)

\* Python's data[:n] for any integer n
Slice(data, n) ==
    IF n >= 0
    THEN SubSeq(data, 1, IF n < Len(data) THEN n ELSE Len(data))
    ELSE SubSeq(data, 1, IF Len(data) + n > 0 THEN Len(data) + n ELSE 0)

(* ---------- exceptions and the handlers' except clause ---------- *)
BaseOnly == {"SystemExit", "KeyboardInterrupt", "GeneratorExit"}
IsException(type) == type \notin BaseOnly

Exc(type, msg) == [type |-> type, msg |-> msg]

NoData == [kind |-> "none"]
Returned(text, data) == [ret |-> "text", text |-> text, exc |-> "none", data |-> data]
Escaped(e) == [ret |-> "raise", text |-> <<>>, exc |-> e.type, data |-> NoData]
ExceptException_bare(e) ==
    IF IsException(e.type)
    THEN [ret |-> "text", text |-> e.msg, exc |-> e.type, data |-> NoData]
    ELSE Escaped(e)
\* except Exception as e: return f"error:{e}"
ExceptException(e) ==
    IF IsException(e.type)
    THEN [ret |-> "text", text |-> ErrPrefix \o e.msg, exc |-> e.type, data |-> NoData]
    ELSE Escaped(e)

\* what the caller sees next: a text result leaves the agent ready for the next call,
\* an exception that left the handler ends the agent loop
After(r) == IF r.ret = "raise" THEN "aborted" ELSE "idle"

(* ---------- the filesystem ---------- *)
Absent == [kind |-> "absent", bytes |-> <<>>, book |-> <<>>]
Dir == [kind |-> "dir", bytes |-> <<>>, book |-> <<>>]
TextFile(b) == [kind |-> "text", bytes |-> b, book |-> <<>>]
Xlsx(b) == [kind |-> "xlsx", bytes |-> <<>>, book |-> b]

Paths == {"f.txt", "d", "d/g.txt", "one.xlsx", "two.xlsx", "nope.xlsx", "out.csv"}
Dirname(path) == IF path = "d/g.txt" THEN "d" ELSE ""

LineSep == IF platform = "windows" THEN <<CR, LF>> ELSE <<LF>>

\* text-mode write, newline=None: "\n" becomes os.linesep
RECURSIVE WriteTranslate(_)
WriteTranslate(s) ==
    IF s = <<>> THEN <<>>
    ELSE (IF Head(s) = LF THEN LineSep ELSE <<Head(s)>>) \o WriteTranslate(Tail(s))

\* text-mode read, newline=None: "\r\n" and "\r" become "\n"
RECURSIVE ReadTranslate(_)
ReadTranslate(b) ==
    IF b = <<>> THEN <<>>
    ELSE IF Head(b) = CR
         THEN <<LF>> \o ReadTranslate(IF Len(b) >= 2 /\ b[2] = LF THEN Tail(Tail(b)) ELSE Tail(b))
         ELSE <<Head(b)>> \o ReadTranslate(Tail(b))

Encodable(s) == \A i \in 1..Len(s) : s[i] # SURR

\* open(path, "r", encoding="utf-8") ... f.read(): the str, or the exception
OpenRead(path) ==
    CASE fs[path].kind = "absent" -> [ok |-> FALSE, data |-> <<>>,
                                      exc |-> Exc("FileNotFoundError", <<"[Errno 2] No such file or directory", path>>)]
      [] fs[path].kind = "dir" -> [ok |-> FALSE, data |-> <<>>,
                                   exc |-> Exc(IF platform = "windows" THEN "PermissionError" ELSE "IsADirectoryError",
                                               <<"[Errno] directory", path>>)]
      [] fs[path].kind = "xlsx" -> [ok |-> FALSE, data |-> <<>>,
                                    exc |-> Exc("UnicodeDecodeError", <<"'utf-8' codec can't decode byte">>)]
      [] OTHER -> [ok |-> TRUE, data |-> ReadTranslate(fs[path].bytes), exc |-> Exc("none", <<>>)]

read_file_result(path, max_chars) ==
    LET o == OpenRead(path) IN
    IF o.ok
    THEN Returned(Slice(o.data, max_chars)
                    \o (IF Len(o.data) > max_chars THEN TruncMarker ELSE <<>>), NoData)
    ELSE ExceptException(o.exc)

\* os.makedirs(os.path.dirname(path) or ".", exist_ok=True): the filesystem after it,
\* or the exception ("." always exists)
Makedirs(path) ==
    LET d == Dirname(path) IN
    IF d = "" \/ fs[d].kind = "dir" THEN [ok |-> TRUE, fs |-> fs, exc |-> Exc("none", <<>>)]
    ELSE IF fs[d].kind = "absent" THEN [ok |-> TRUE, fs |-> [fs EXCEPT ![d] = Dir], exc |-> Exc("none", <<>>)]
    ELSE [ok |-> FALSE, fs |-> fs, exc |-> Exc("FileExistsError", <<"[Errno 17] File exists", d>>)]

\* open(path, "w", encoding="utf-8"); f.write(content): open truncates the file
\* before write encodes the content
OpenWrite(f, path, content) ==
    IF f[path].kind = "dir"
    THEN [ok |-> FALSE, fs |-> f,
          exc |-> Exc(IF platform = "windows" THEN "PermissionError" ELSE "IsADirectoryError",
                      <<"[Errno] directory", path>>)]
    ELSE IF ~Encodable(content)
    THEN [ok |-> FALSE, fs |-> [f EXCEPT ![path] = TextFile(<<>>)],
          exc |-> Exc("UnicodeEncodeError", <<"'utf-8' codec can't encode character">>)]
    ELSE [ok |-> TRUE, fs |-> [f EXCEPT ![path] = TextFile(WriteTranslate(content))],
          exc |-> Exc("none", <<>>)]

write_file_outcome(path, content) ==
    LET m == Makedirs(path) IN
    IF ~m.ok THEN [fs |-> fs, result |-> ExceptException(m.exc)]
    ELSE LET w == OpenWrite(m.fs, path, content) IN
         IF ~w.ok THEN [fs |-> w.fs, result |-> ExceptException(w.exc)]
         ELSE [fs |-> w.fs, result |-> Returned(SavedPrefix \o <<path>>, NoData)]

(* ---------- the agent's inputs ---------- *)
Contents == SeqsUpTo(Chars, MaxLen) \cup {ErrPrefix \o <<"a">>, <<"a", SURR>>}
DefaultMaxChars == 20000
MaxCharsArgs == (-1..MaxLen) \cup {DefaultMaxChars}
ReadPaths == {"f.txt", "d", "d/g.txt", "one.xlsx", "nope.xlsx"}
WriteArgs == ({"f.txt"} \X Contents) \cup ({"d", "d/g.txt"} \X {<<"a">>})

NoWrite == [ok |-> FALSE, path |-> "", content |-> <<>>]
NoResult == [ret |-> "none", text |-> <<>>, exc |-> "none", data |-> NoData]

(* ---------- Shell ---------- *)
TimeoutSecs == 60

\* What a command line does when the shell runs it: what it writes to stdout and
\* stderr, whether the shell then exits by itself and with which status, and the
\* child process it starts, which inherits the output pipes: none, one that exits
\* after a while ("finite") or one that never exits ("forever"); fg: the shell
\* waits for the child.  launch: Popen can start the command at all.  The names
\* are written in POSIX shell syntax; they stand for the command line with that
\* behaviour on either platform.
Cmd(name) ==
    CASE name = "echo hi" ->
            [out |-> <<"h", "i">> \o LineSep, err |-> <<>>, status |-> 0,
             child |-> "none", fg |-> FALSE, launch |-> TRUE]
      [] name = "echo a; echo b >&2; exit 3" ->
            [out |-> <<"a">> \o LineSep, err |-> <<"b">> \o LineSep, status |-> 3,
             child |-> "none", fg |-> FALSE, launch |-> TRUE]
      [] name = "echo error:" ->
            [out |-> ErrPrefix \o LineSep, err |-> <<>>, status |-> 0,
             child |-> "none", fg |-> FALSE, launch |-> TRUE]
      [] name = "echo a; sleep infinity" ->
            [out |-> <<"a">> \o LineSep, err |-> <<>>, status |-> 0,
             child |-> "forever", fg |-> TRUE, launch |-> TRUE]
      [] name = "sleep infinity & echo a" ->
            [out |-> <<"a">> \o LineSep, err |-> <<>>, status |-> 0,
             child |-> "forever", fg |-> FALSE, launch |-> TRUE]
      [] name = "sleep 120 & echo a" ->
            [out |-> <<"a">> \o LineSep, err |-> <<>>, status |-> 0,
             child |-> "finite", fg |-> FALSE, launch |-> TRUE]
      [] name = "yes | head" ->
            [out |-> Rep("y", ResultLimit + Len(TruncMarker) + 1), err |-> <<>>, status |-> 0,
             child |-> "none", fg |-> FALSE, launch |-> TRUE]
      [] OTHER ->   \* "echo a<NUL>b": ValueError, embedded null byte
            [out |-> <<>>, err |-> <<>>, status |-> 0,
             child |-> "none", fg |-> FALSE, launch |-> FALSE]

Commands == {"echo hi", "echo a; echo b >&2; exit 3", "echo error:", "echo a; sleep infinity",
             "sleep infinity & echo a", "sleep 120 & echo a", "yes | head", "echo a<NUL>b"}

NoProc == [cmd |-> "", shell |-> "none", nOut |-> 0, nErr |-> 0, child |-> FALSE, timedOut |-> FALSE]

\* r.stdout and r.stderr: what was written to each pipe, decoded with text=True
\* (universal newlines)
Stdout(p) == ReadTranslate(SubSeq(Cmd(p.cmd).out, 1, p.nOut))
Stderr(p) == ReadTranslate(SubSeq(Cmd(p.cmd).err, 1, p.nErr))

\* communicate() has read both pipes to end-of-file and the shell has exited
PipesClosed(p) == p.shell # "running" /\ ~p.child

TimeoutExpired(cmd) ==
    Exc("TimeoutExpired", <<"Command ", cmd, " timed out after ", ToString(TimeoutSecs), " seconds">>)

\* return (r.stdout or "") + (r.stderr or "")
sh_result(p) == Returned(Stdout(p) \o Stderr(p), NoData)

\* the TimeoutExpired raised by run() reaches the except clause
sh_timeout_result_partial(p) == Returned(Stdout(p) \o Stderr(p), NoData)
sh_timeout_result(p) == ExceptException(TimeoutExpired(p.cmd))

\* run(cmd, shell=True, ...): Popen starts the shell, or raises
sh(cmd) ==
    /\ pc = "idle"
    /\ call' = [tool |-> "sh", cmd |-> cmd]
    /\ prevWrite' = NoWrite
    /\ IF Cmd(cmd).launch
       THEN /\ proc' = [cmd |-> cmd, shell |-> "running", nOut |-> 0, nErr |-> 0,
                        child |-> Cmd(cmd).child # "none", timedOut |-> FALSE]
            /\ result' = NoResult
            /\ pc' = "sh_communicate"
       ELSE /\ proc' = [NoProc EXCEPT !.cmd = cmd]
            /\ result' = ExceptException(Exc("ValueError", <<"embedded null byte">>))
            /\ pc' = After(result')
    /\ UNCHANGED <<platform, fs, mods, lastNs>>

\* the running shell writes the next character of its output to a pipe
ProcWrite ==
    /\ pc = "sh_communicate"
    /\ proc.shell = "running"
    /\ \/ /\ proc.nOut < Len(Cmd(proc.cmd).out)
          /\ proc' = [proc EXCEPT !.nOut = @ + 1]
       \/ /\ proc.nErr < Len(Cmd(proc.cmd).err)
          /\ proc' = [proc EXCEPT !.nErr = @ + 1]
    /\ UNCHANGED <<platform, fs, pc, call, result, mods, lastNs, prevWrite>>

\* the shell exits by itself once its script is done
ProcExit ==
    /\ pc = "sh_communicate"
    /\ proc.shell = "running"
    /\ proc.nOut = Len(Cmd(proc.cmd).out) /\ proc.nErr = Len(Cmd(proc.cmd).err)
    /\ Cmd(proc.cmd).fg => ~proc.child
    /\ proc' = [proc EXCEPT !.shell = "exited"]
    /\ UNCHANGED <<platform, fs, pc, call, result, mods, lastNs, prevWrite>>

\* a child that runs for a while exits and closes its copies of the pipes
ChildExit ==
    /\ pc \in {"sh_communicate", "sh_collect"}
    /\ proc.child /\ Cmd(proc.cmd).child = "finite"
    /\ proc' = [proc EXCEPT !.child = FALSE]
    /\ UNCHANGED <<platform, fs, pc, call, result, mods, lastNs, prevWrite>>

\* communicate() returns: run() returns the CompletedProcess (check=False: any status)
sh_return ==
    /\ pc = "sh_communicate"
    /\ PipesClosed(proc)
    /\ result' = sh_result(proc)
    /\ pc' = After(result')
    /\ UNCHANGED <<platform, fs, call, proc, mods, lastNs, prevWrite>>

\* communicate(timeout=60) raises TimeoutExpired: run() kills the shell (not its
\* children), then on POSIX waits for the shell and re-raises, on Windows first
\* calls communicate() again, without a timeout
sh_timeout ==
    /\ pc = "sh_communicate"
    /\ ~PipesClosed(proc)
    /\ proc' = [proc EXCEPT !.shell = IF @ = "running" THEN "killed" ELSE @, !.timedOut = TRUE]
    /\ IF platform = "windows"
       THEN /\ pc' = "sh_collect"
            /\ UNCHANGED result
       ELSE /\ result' = sh_timeout_result(proc')
            /\ pc' = After(result')
    /\ UNCHANGED <<platform, fs, call, mods, lastNs, prevWrite>>

\* Windows: the second communicate() returns at end-of-file of both pipes, that is
\* when no process holds them any more; then TimeoutExpired is re-raised
sh_collect ==
    /\ pc = "sh_collect"
    /\ PipesClosed(proc)
    /\ result' = sh_timeout_result(proc)
    /\ pc' = After(result')
    /\ UNCHANGED <<platform, fs, call, proc, mods, lastNs, prevWrite>>

ShStep == ProcWrite \/ ProcExit \/ ChildExit \/ sh_return \/ sh_timeout \/ sh_collect

(* ---------- py ---------- *)
PyNames == {"pd", "json", "os", "x"}
PyModules == {"pd", "json", "os"}

\* ns = {"pd": pd, "json": json, "os": os}: what each name is bound to
FreshNs == [n \in PyNames |-> IF n \in PyModules THEN "module" ELSE "unbound"]

\* The statements of a snippet:
\*   print "error:": print("error:")
\*   assign n: n = 1                printname n: print(n)
\*   setattr m: m.zz = 1            printattr m: print(m.zz)
\*   raise T: raise T()
Stmt(op, arg) == [op |-> op, arg |-> arg]
Stmts == {Stmt("print", "error:"),
          Stmt("assign", "x"), Stmt("assign", "pd"),
          Stmt("printname", "x"), Stmt("printname", "pd"),
          Stmt("setattr", "os"), Stmt("printattr", "os"),
          Stmt("raise", "SystemExit")}

NoExc == Exc("none", <<>>)

\* one statement, on the interpreter state st = [ns, mods, out, exc]; mods is the
\* set of attributes set on the module objects, which every call shares
ExecStmt(st, s) ==
    CASE s.op = "print" ->
            [st EXCEPT !.out = @ \o ErrPrefix \o <<LF>>]
      [] s.op = "assign" -> [st EXCEPT !.ns[s.arg] = "int"]
      [] s.op = "printname" ->
            IF st.ns[s.arg] = "unbound"
            THEN [st EXCEPT !.exc = Exc("NameError", <<"name ", s.arg, " is not defined">>)]
            ELSE [st EXCEPT !.out = @ \o <<IF st.ns[s.arg] = "int" THEN "1" ELSE "<module>", LF>>]
      [] s.op = "setattr" ->
            IF st.ns[s.arg] = "unbound"
            THEN [st EXCEPT !.exc = Exc("NameError", <<"name ", s.arg, " is not defined">>)]
            ELSE IF st.ns[s.arg] = "int"
            THEN [st EXCEPT !.exc = Exc("AttributeError", <<"'int' object has no attribute 'zz'">>)]
            ELSE [st EXCEPT !.mods = @ \cup {s.arg}]
      [] s.op = "printattr" ->
            IF st.ns[s.arg] = "unbound"
            THEN [st EXCEPT !.exc = Exc("NameError", <<"name ", s.arg, " is not defined">>)]
            ELSE IF st.ns[s.arg] = "int"
            THEN [st EXCEPT !.exc = Exc("AttributeError", <<"'int' object has no attribute 'zz'">>)]
            ELSE IF s.arg \in st.mods
            THEN [st EXCEPT !.out = @ \o <<"1", LF>>]
            ELSE [st EXCEPT !.exc = Exc("AttributeError", <<"module ", s.arg, " has no attribute 'zz'">>)]
      [] OTHER ->   \* raise
            [st EXCEPT !.exc = Exc(s.arg, <<>>)]

\* exec(code, ns, ns) under redirect_stdout(buf): statements run until one raises
RECURSIVE Exec(_, _)
Exec(code, st) ==
    IF code = <<>> \/ st.exc.type # "none" THEN st
    ELSE Exec(Tail(code), ExecStmt(st, Head(code)))

\* the namespace a call starts from
py_ns_persistent == lastNs
py_ns == FreshNs

py_outcome(code, ns0, m0) ==
    LET st == Exec(code, [ns |-> ns0, mods |-> m0, out |-> <<>>, exc |-> NoExc]) IN
    [ns |-> st.ns, mods |-> st.mods,
     result |-> IF st.exc.type = "none"
                THEN Returned(IF st.out # <<>> THEN st.out ELSE OkText, NoData)
                ELSE ExceptException(st.exc)]

py(code) ==
    /\ pc = "idle"
    /\ call' = [tool |-> "py", code |-> code, left |-> lastNs, modsBefore |-> mods]
    /\ result' = py_outcome(code, py_ns, mods).result
    /\ mods' = py_outcome(code, py_ns, mods).mods
    /\ lastNs' = py_outcome(code, py_ns, mods).ns
    /\ pc' = After(result')
    /\ proc' = NoProc
    /\ prevWrite' = NoWrite
    /\ UNCHANGED <<platform, fs>>

Snippets == SeqsUpTo(Stmts, MaxSnippet)

(* ---------- Excel / data ---------- *)
None == "<None>"     \* Python's None as the sheet argument
Null == -1           \* an empty cell (NaN); the other cells hold naturals

Sheet(name, columns, rows) == [name |-> name, columns |-> columns, rows |-> rows]

\* the workbooks on disk: one.xlsx has one sheet, two.xlsx has two
T1 == Sheet("S1", <<"k", "j", "v">>,
            << [k |-> 2, j |-> 1, v |-> 1], [k |-> 1, j |-> 1, v |-> 2],
               [k |-> Null, j |-> 1, v |-> 1], [k |-> 2, j |-> 1, v |-> 2] >>)
T2 == Sheet("S2", <<"k", "v">>, << [k |-> 1, v |-> 1] >>)
OneBook == <<T1>>
TwoBook == <<T1, T2>>

Range(q) == {q[i] : i \in 1..Len(q)}
HasDuplicates(q) == \E i, j \in 1..Len(q) : i # j /\ q[i] = q[j]

\* pd.read_excel(path, sheet_name=sheet, engine="openpyxl"): sheet_name=None loads
\* every sheet and returns a dict of DataFrames keyed by sheet name
ReadExcel(path, sheet) ==
    LET f == fs[path]
        fail(e) == [ok |-> FALSE, exc |-> e, kind |-> "none", frame |-> <<>>, frames |-> <<>>]
    IN
    CASE f.kind = "absent" -> fail(Exc("FileNotFoundError", <<"[Errno 2] No such file or directory", path>>))
      [] f.kind = "dir" -> fail(Exc(IF platform = "windows" THEN "PermissionError" ELSE "IsADirectoryError",
                                    <<"[Errno] directory", path>>))
      [] f.kind = "text" -> fail(Exc("BadZipFile", <<"File is not a zip file">>))
      [] OTHER ->
            IF sheet = None
            THEN [ok |-> TRUE, exc |-> NoExc, kind |-> "dict", frame |-> <<>>, frames |-> f.book]
            ELSE IF \E i \in 1..Len(f.book) : f.book[i].name = sheet
            THEN [ok |-> TRUE, exc |-> NoExc, kind |-> "frame",
                  frame |-> f.book[CHOOSE i \in 1..Len(f.book) : f.book[i].name = sheet],
                  frames |-> <<>>]
            ELSE fail(Exc("ValueError", <<"Worksheet named ", sheet, " not found">>))

DictHasNo(attr) == Exc("AttributeError", <<"'dict' object has no attribute ", attr>>)

IsNa(v) == v = Null
NaCount(df, c) == Cardinality({i \in 1..Len(df.rows) : IsNa(df.rows[i][c])})
\* a numeric column with an empty cell is float64
Dtype(df, c) == IF NaCount(df, c) > 0 THEN "float64" ELSE "int64"

\* the info dict of read_excel; preview: the rows of df.head(head)
Info(df, head) ==
    [kind |-> "info",
     rows |-> Len(df.rows),
     columns |-> df.columns,
     dtypes |-> [c \in Range(df.columns) |-> Dtype(df, c)],
     na_counts |-> [c \in Range(df.columns) |-> NaCount(df, c)],
     preview |-> Slice(df.rows, head)]

\* json.dumps(info) is an object: its text begins with "{"
read_excel_result(path, sheet, head) ==
    LET r == ReadExcel(path, sheet) IN
    IF ~r.ok THEN ExceptException(r.exc)
    ELSE IF r.kind = "dict" THEN ExceptException(DictHasNo("columns"))
    ELSE Returned(<<"{">>, Info(r.frame, head))

read_excel(path, sheet, head) ==
    /\ pc = "idle"
    /\ call' = [tool |-> "read_excel", path |-> path, sheet |-> sheet, head |-> head]
    /\ result' = read_excel_result(path, sheet, head)
    /\ pc' = After(result')
    /\ proc' = NoProc
    /\ prevWrite' = NoWrite
    /\ UNCHANGED <<platform, fs, mods, lastNs>>

Aggs == {"sum", "count", "max"}

KeyOf(row, by) == [i \in 1..Len(by) |-> row[by[i]]]
\* groupby drops the rows with an empty key cell (dropna=True)
GroupKeys(df, by) ==
    {KeyOf(df.rows[i], by) : i \in {n \in 1..Len(df.rows) : \A m \in 1..Len(by) : ~IsNa(df.rows[n][by[m]])}}

TupleLess(a, b) == \E i \in 1..Len(a) : a[i] < b[i] /\ \A j \in 1..(i - 1) : a[j] = b[j]

\* the group keys in ascending order (sort=True)
RECURSIVE SortedKeys(_)
SortedKeys(S) ==
    IF S = {} THEN <<>>
    ELSE LET m == CHOOSE a \in S : \A b \in S \ {a} : TupleLess(a, b)
         IN <<m>> \o SortedKeys(S \ {m})

RECURSIVE Sum(_, _)
Sum(f, S) == IF S = {} THEN 0 ELSE LET i == CHOOSE x \in S : TRUE IN f[i] + Sum(f, S \ {i})

\* the named reduction over the non-empty cells of column value in rows I
Agg(df, I, value, agg) ==
    LET J == {i \in I : ~IsNa(df.rows[i][value])}
        col == [i \in 1..Len(df.rows) |-> df.rows[i][value]]
    IN CASE agg = "sum" -> Sum(col, J)
         [] agg = "count" -> Cardinality(J)
         [] OTHER -> IF J = {} THEN Null ELSE CHOOSE x \in {col[i] : i \in J} : \A i \in J : col[i] <= x

\* df.groupby(by)[value].agg(agg).reset_index(): the columns and rows of g
GroupBy(df, by, value, agg) ==
    LET keys == SortedKeys(GroupKeys(df, by)) IN
    [kind |-> "table",
     columns |-> by \o <<value>>,
     rows |-> [n \in 1..Len(keys) |->
                 keys[n] \o <<Agg(df, {i \in 1..Len(df.rows) : KeyOf(df.rows[i], by) = keys[n]}, value, agg)>>]]

\* g.to_markdown(index=False) is a pipe table: its text begins with "|"
excel_groupby_result(path, sheet, by, value, agg) ==
    LET r == ReadExcel(path, sheet) IN
    IF ~r.ok THEN ExceptException(r.exc)
    ELSE IF r.kind = "dict" THEN ExceptException(DictHasNo("groupby"))
    ELSE IF by = <<>> THEN ExceptException(Exc("ValueError", <<"No group keys passed!">>))
    ELSE IF \E i \in 1..Len(by) : by[i] \notin Range(r.frame.columns)
    THEN ExceptException(Exc("KeyError", <<by[CHOOSE i \in 1..Len(by) : by[i] \notin Range(r.frame.columns)]>>))
    ELSE IF value \notin Range(r.frame.columns)
    THEN ExceptException(Exc("KeyError", <<"Column not found: ", value>>))
    ELSE IF agg \notin Aggs
    THEN ExceptException(Exc("AttributeError", <<"'SeriesGroupBy' object has no attribute ", agg>>))
    ELSE IF HasDuplicates(by \o <<value>>)
    THEN ExceptException(Exc("ValueError", <<"cannot insert a column, already exists">>))
    ELSE Returned(<<"|">>, GroupBy(r.frame, by, value, agg))

excel_groupby(path, sheet, by, value, agg) ==
    /\ pc = "idle"
    /\ call' = [tool |-> "excel_groupby", path |-> path, sheet |-> sheet, by |-> by,
                value |-> value, agg |-> agg]
    /\ result' = excel_groupby_result(path, sheet, by, value, agg)
    /\ pc' = After(result')
    /\ proc' = NoProc
    /\ prevWrite' = NoWrite
    /\ UNCHANGED <<platform, fs, mods, lastNs>>

\* a cell as to_csv writes it: empty for NaN, the number as a float in a float64 column
CsvCell(df, c, v) ==
    IF IsNa(v) THEN <<>>
    ELSE IF Dtype(df, c) = "float64" THEN <<ToString(v), ".", "0">> ELSE <<ToString(v)>>

RECURSIVE CsvJoin(_)
CsvJoin(fields) ==
    IF fields = <<>> THEN <<>>
    ELSE IF Len(fields) = 1 THEN fields[1]
    ELSE fields[1] \o <<",">> \o CsvJoin(Tail(fields))

CsvLine(df, row) == CsvJoin([i \in 1..Len(df.columns) |-> CsvCell(df, df.columns[i], row[df.columns[i]])])

RECURSIVE CsvRows(_, _)
CsvRows(df, rows) ==
    IF rows = <<>> THEN <<>>
    ELSE CsvLine(df, Head(rows)) \o LineSep \o CsvRows(df, Tail(rows))

\* df.to_csv(out_csv, index=False): the header line and one line per row, each
\* ended by os.linesep, written without newline translation
Csv(df) == CsvJoin([i \in 1..Len(df.columns) |-> <<df.columns[i]>>]) \o LineSep \o CsvRows(df, df.rows)

to_csv_from_excel_outcome(path, sheet, out_csv) ==
    LET r == ReadExcel(path, sheet)
        fail(e) == [fs |-> fs, result |-> ExceptException(e)]
    IN
    IF ~r.ok THEN fail(r.exc)
    ELSE IF r.kind = "dict" THEN fail(DictHasNo("to_csv"))
    ELSE IF Dirname(out_csv) # "" /\ fs[Dirname(out_csv)].kind # "dir"
    THEN fail(Exc("OSError", <<"Cannot save file into a non-existent directory: ", Dirname(out_csv)>>))
    ELSE IF fs[out_csv].kind = "dir"
    THEN fail(Exc(IF platform = "windows" THEN "PermissionError" ELSE "IsADirectoryError",
                  <<"[Errno] directory", out_csv>>))
    ELSE [fs |-> [fs EXCEPT ![out_csv] = TextFile(Csv(r.frame))],
          result |-> Returned(SavedPrefix \o <<out_csv>>, NoData)]

to_csv_from_excel(path, sheet, out_csv) ==
    /\ pc = "idle"
    /\ call' = [tool |-> "to_csv_from_excel", path |-> path, sheet |-> sheet, out_csv |-> out_csv]
    /\ result' = to_csv_from_excel_outcome(path, sheet, out_csv).result
    /\ fs' = to_csv_from_excel_outcome(path, sheet, out_csv).fs
    /\ pc' = After(result')
    /\ proc' = NoProc
    /\ prevWrite' = NoWrite
    /\ UNCHANGED <<platform, mods, lastNs>>

MaxBy == 2           \* most key columns in a by list
ExcelPaths == {"one.xlsx", "two.xlsx", "nope.xlsx", "f.txt"}
SheetArgs == {None, "S1", "S2", "Nope"}
HeadArgs == {-1, 0, 5}
ByArgs == SeqsUpTo({"k", "j", "zz"}, MaxBy)
ValueArgs == {"v", "k", "zz"}
AggArgs == {"sum", "count", "bogus"}
OutPaths == {"out.csv", "d/g.txt"}

Init ==
    /\ platform \in {"posix", "windows"}
    /\ fs = [p \in Paths |-> IF p = "one.xlsx" THEN Xlsx(OneBook)
                              ELSE IF p = "two.xlsx" THEN Xlsx(TwoBook) ELSE Absent]
    /\ pc = "idle"
    /\ call = [tool |-> "none"]
    /\ result = NoResult
    /\ proc = NoProc
    /\ mods = {}
    /\ lastNs = FreshNs
    /\ prevWrite = NoWrite

read_file(path, max_chars) ==
    /\ pc = "idle"
    /\ call' = [tool |-> "read_file", path |-> path, max_chars |-> max_chars, after |-> prevWrite]
    /\ result' = read_file_result(path, max_chars)
    /\ pc' = After(result')
    /\ proc' = NoProc
    /\ prevWrite' = NoWrite
    /\ UNCHANGED <<platform, fs, mods, lastNs>>

write_file(path, content) ==
    /\ pc = "idle"
    /\ call' = [tool |-> "write_file", path |-> path, content |-> content]
    /\ result' = write_file_outcome(path, content).result
    /\ fs' = write_file_outcome(path, content).fs
    /\ pc' = After(result')
    /\ proc' = NoProc
    /\ prevWrite' = [ok |-> result'.exc = "none", path |-> path, content |-> content]
    /\ UNCHANGED <<platform, mods, lastNs>>

ShNext == (\E c \in Commands : sh(c)) \/ ShStep

FileNext ==
    \/ \E p \in ReadPaths, m \in MaxCharsArgs : read_file(p, m)
    \/ \E a \in WriteArgs : write_file(a[1], a[2])

PyNext == \E code \in Snippets : py(code)

ExcelNext ==
    \/ \E p \in ExcelPaths, s \in SheetArgs, h \in HeadArgs : read_excel(p, s, h)
    \/ \E p \in {"one.xlsx"}, s \in {None, "S1", "Nope"}, by \in ByArgs, v \in ValueArgs, a \in AggArgs :
            excel_groupby(p, s, by, v, a)
    \/ \E p \in ExcelPaths, s \in SheetArgs, o \in OutPaths : to_csv_from_excel(p, s, o)

\* all seven tools, each on the inputs that reach every branch of its handler
CoreContents == {Rep("a", MaxLen - 1), <<CR>>, ErrPrefix \o <<"a">>, <<"a", SURR>>}
CoreStmts == {Stmt("print", "error:"), Stmt("printname", "pd"), Stmt("printname", "x"),
              Stmt("raise", "SystemExit")}
CoreBy == {<<"k">>, <<"zz">>} \cup {Rep("k", MaxBy)}

Next ==
    \/ \E p \in {"f.txt", "one.xlsx", "nope.xlsx"}, m \in {0, DefaultMaxChars} : read_file(p, m)
    \/ \E c \in CoreContents : write_file("f.txt", c)
    \/ \E c \in Commands : sh(c)
    \/ ShStep
    \/ \E code \in SeqsUpTo(CoreStmts, MaxSnippet) : py(code)
    \/ \E p \in {"one.xlsx", "two.xlsx", "nope.xlsx"}, s \in {None, "S1", "Nope"} : read_excel(p, s, 5)
    \/ \E s \in {None, "S1"}, by \in CoreBy, v \in {"v", "k"}, a \in {"sum", "bogus"} :
            excel_groupby("one.xlsx", s, by, v, a)
    \/ \E s \in {None, "S2"} : to_csv_from_excel("two.xlsx", s, "out.csv")

FileSpec == Init /\ [][FileNext]_vars
ShSpec == Init /\ [][ShNext]_vars
ExcelSpec == Init /\ [][ExcelNext]_vars
PySpec == Init /\ [][PyNext]_vars
Spec == Init /\ [][Next]_vars

\* the timer, the pipes and the processes make progress; the agent need not call again
ShFairSpec ==
    /\ ShSpec
    /\ WF_vars(ProcWrite) /\ WF_vars(ProcExit) /\ WF_vars(ChildExit)
    /\ WF_vars(sh_return) /\ WF_vars(sh_timeout) /\ WF_vars(sh_collect)

(* ---------- claims ---------- *)

C3_ShReturns == (pc = "sh_communicate") ~> (pc = "idle")

\* C6: the text returned by sh is never longer than the limit plus the marker.
C6_ResultBounded ==
    (call.tool \in {"sh", "py"} /\ result.ret = "text" /\ result.exc = "none")
        => Len(result.text) <= ResultLimit + Len(TruncMarker)

\* C1: no invocation lets a raised error escape to the caller.
C1_NoErrorEscapes == result.ret # "raise"

\* C7 as stated: the result of a py call is the same whether or not other py
\* calls were made before it, that is the result of the same call made first.
C7_NoCarryOver ==
    call.tool = "py" => result = py_outcome(call.code, FreshNs, {}).result

\* C7 amended: the result of a py call is that of the snippet run from the fresh
\* namespace on the module objects as the earlier calls left them; the names
\* earlier snippets bound or rebound have no effect.
C7_FreshNamespace ==
    call.tool = "py" => result = py_outcome(call.code, FreshNs, call.modsBefore).result

C7_Witness ==
    /\ call.tool = "py" /\ call.left["x"] = "int" /\ call.left["pd"] = "int"
    /\ call.code = <<Stmt("printname", "pd"), Stmt("printname", "x")>>
    /\ result.text = ErrPrefix \o <<"name ", "x", " is not defined">>
\* C4 (for max_chars >= 0): a read_file of p right after a successful
\* write_file(p, c) returns c when len(c) <= max_chars, and the first max_chars
\* characters of c followed by the truncation marker otherwise.
C4_WriteReadRoundTrip ==
    (call.tool = "read_file" /\ call.after.ok /\ call.after.path = call.path /\ call.max_chars >= 0)
        => /\ result.ret = "text"
           /\ result.text = IF Len(call.after.content) <= call.max_chars
                            THEN call.after.content
                            ELSE SubSeq(call.after.content, 1, call.max_chars) \o TruncMarker

\* C5: with sheet unspecified on a readable workbook, read_excel returns the
\* description (rows, columns, dtypes, na_counts, preview) of the workbook's first
\* sheet, not an error.
C5_NoneLoadsFirstSheet ==
    (call.tool = "read_excel" /\ call.sheet = None /\ fs[call.path].kind = "xlsx")
        => /\ result.exc = "none"
           /\ result.data = Info(fs[call.path].book[1], call.head)

\* the excel_groupby calls C8 and C9 are about: a sheet of the workbook named by
\* its name, one or more key columns and a value column of that sheet, a valid
\* aggregation name
ValidGroupBy ==
    /\ call.tool = "excel_groupby" /\ fs[call.path].kind = "xlsx"
    /\ \E i \in 1..Len(fs[call.path].book) : fs[call.path].book[i].name = call.sheet
    /\ call.by # <<>> /\ call.agg \in Aggs
    /\ Range(call.by) \cup {call.value} \subseteq Range(ReadExcel(call.path, call.sheet).frame.columns)

\* C8: the table excel_groupby returns has exactly the columns by + [value], also
\* when value is one of the key columns or by repeats a column.
C8_GroupByColumns ==
    ValidGroupBy => (result.exc = "none" /\ result.data.columns = call.by \o <<call.value>>)

\* C9: excel_groupby renders exactly one row for every distinct tuple of key
\* values among the sheet's rows, rows with empty key cells included.
C9_OneRowPerKeyTuple ==
    (ValidGroupBy /\ result.exc = "none")
        => LET df == ReadExcel(call.path, call.sheet).frame
               keys == {KeyOf(df.rows[i], call.by) : i \in 1..Len(df.rows)}
           IN /\ Len(result.data.rows) = Cardinality(keys)
              /\ {SubSeq(result.data.rows[n], 1, Len(call.by)) : n \in 1..Len(result.data.rows)} = keys

\* the invocation failed: its handler caught an exception, or the shell command
\* exited with a non-zero status
Failed ==
    \/ result.exc # "none"
    \/ call.tool = "sh" /\ proc.shell = "exited" /\ Cmd(proc.cmd).status # 0

\* C10 as stated: a result begins with "error:" if and only if the invocation failed.
C10_PrefixIffFailed ==
    (pc = "idle" /\ result.ret = "text") => (StartsWith(result.text, ErrPrefix) <=> Failed)

\* C10 amended: a result returned by a call whose handler caught an exception
\* begins with "error:" (so a result without the prefix tells that none was caught).
C10_CaughtHasPrefix ==
    (result.ret = "text" /\ result.exc # "none") => StartsWith(result.text, ErrPrefix)

C10_Witness ==
    /\ call.tool = "py" /\ call.code = <<Stmt("print", "error:"), Stmt("printname", "x")>>
    /\ result.ret = "text" /\ result.exc = "NameError"
    /\ result.text = ErrPrefix \o <<"name ", "x", " is not defined">>
====
